---- MODULE Spec2Model ----
(***************************************************************************)
(* Model of src/api_client.py: APIClient, a thin wrapper over a            *)
(* requests.Session.                                                       *)
(*                                                                         *)
(* Strings that the code takes apart (base URLs, endpoints) are sequences  *)
(* of one-character strings.  The token ORIGIN stands for the scheme and   *)
(* authority "http://host" of an absolute URL and is only ever the first   *)
(* element of a string.  Python's None is the empty set and a present      *)
(* optional value x is {x}.                                                *)
(***************************************************************************)
EXTENDS Integers, Sequences, FiniteSets, TLC

\* ------------------------------------------------------------------ bounds
\* longest path typed after the origin of a base URL
MaxBaseLen == 2
\* longest endpoint string
MaxEndpointLen == 3

\* ------------------------------------------------------------- characters
ORIGIN == "http://host"
SLASH == "/"
BaseChars == {"/", "a", "."}
EndpointChars == {"/", "a", ".", ":"}
\* string.ascii_letters + digits + "+-." restricted to the alphabet in use
SchemeChars == {"a", "."}
AlphaChars == {"a"}

\* all sequences over S of length 0..n
RECURSIVE SeqsUpTo(_, _)
SeqsUpTo(S, n) ==
    IF n = 0 THEN {<<>>}
    ELSE LET shorter == SeqsUpTo(S, n - 1)
         IN  shorter \cup {Append(s, c) : s \in {t \in shorter : Len(t) = n - 1}, c \in S}

\* ---------------------------------------------------------- str primitives
\* str.rstrip('/')
RECURSIVE rstrip(_)
rstrip(s) ==
    IF s # <<>> /\ s[Len(s)] = SLASH THEN rstrip(SubSeq(s, 1, Len(s) - 1)) ELSE s

\* str.lstrip('/')
RECURSIVE lstrip(_)
lstrip(s) ==
    IF s # <<>> /\ s[1] = SLASH THEN lstrip(Tail(s)) ELSE s

\* str.split('/'): the list of the segments between the slashes
RECURSIVE split(_)
split(s) ==
    IF \A i \in 1..Len(s) : s[i] # SLASH THEN <<s>>
    ELSE LET i == CHOOSE k \in 1..Len(s) :
                     s[k] = SLASH /\ \A j \in 1..(k - 1) : s[j] # SLASH
         IN  <<SubSeq(s, 1, i - 1)>> \o split(SubSeq(s, i + 1, Len(s)))

\* '/'.join(parts)
RECURSIVE join(_)
join(parts) ==
    IF parts = <<>> THEN <<>>
    ELSE IF Len(parts) = 1 THEN parts[1]
    ELSE parts[1] \o <<SLASH>> \o join(Tail(parts))

\* filter(None, parts): the non-empty segments, in order
RECURSIVE filterNonEmpty(_)
filterNonEmpty(parts) ==
    IF parts = <<>> THEN <<>>
    ELSE IF parts[1] = <<>> THEN filterNonEmpty(Tail(parts))
    ELSE <<parts[1]>> \o filterNonEmpty(Tail(parts))

\* ------------------------------------------------- urllib.parse.urljoin
\* urlsplit's scheme rule: the text before the first ':' is a scheme when it
\* is non-empty, starts with a letter and holds only scheme characters
hasScheme(url) ==
    \E i \in 2..Len(url) :
        /\ url[i] = ":"
        /\ \A j \in 1..(i - 1) : url[j] # ":"
        /\ url[1] \in AlphaChars
        /\ \A j \in 1..(i - 1) : url[j] \in SchemeChars

hasOrigin(url) == url # <<>> /\ url[1] = ORIGIN

\* the path component of a URL of the model (no query, fragment or params)
urlPath(url) == IF hasOrigin(url) THEN Tail(url) ELSE url

\* urljoin's loop over the segments: '..' pops, '.' is skipped
RECURSIVE resolveSegments(_, _)
resolveSegments(segments, resolved) ==
    IF segments = <<>> THEN resolved
    ELSE LET seg == segments[1]
             next == IF seg = <<".", ".">>
                         THEN IF resolved = <<>> THEN resolved
                              ELSE SubSeq(resolved, 1, Len(resolved) - 1)
                     ELSE IF seg = <<".">> THEN resolved
                     ELSE Append(resolved, seg)
         IN  resolveSegments(Tail(segments), next)

\* urlunparse for a URL with the base's scheme and authority and this path
urlunparse(withOrigin, path) ==
    IF withOrigin
        THEN <<ORIGIN>> \o (IF path # <<>> /\ path[1] # SLASH THEN <<SLASH>> \o path ELSE path)
        ELSE path

urljoin(base, url) ==
    IF base = <<>> THEN url
    ELSE IF url = <<>> THEN base
    ELSE IF hasScheme(url) THEN url
    ELSE LET bpath == urlPath(base)
             bsplit == split(bpath)
             base_parts == IF bsplit[Len(bsplit)] # <<>>
                               THEN SubSeq(bsplit, 1, Len(bsplit) - 1)
                               ELSE bsplit
             joined == base_parts \o split(url)
             segments == IF url[1] = SLASH THEN split(url)
                         ELSE IF Len(joined) <= 2 THEN joined
                         ELSE <<joined[1]>>
                              \o filterNonEmpty(SubSeq(joined, 2, Len(joined) - 1))
                              \o <<joined[Len(joined)]>>
             last == segments[Len(segments)]
             resolved == resolveSegments(segments, <<>>)
             resolved_path == IF last = <<".">> \/ last = <<".", ".">>
                                  THEN Append(resolved, <<>>)
                                  ELSE resolved
             path == IF join(resolved_path) = <<>> THEN <<SLASH>> ELSE join(resolved_path)
         IN  urlunparse(hasOrigin(base), path)

\* ------------------------------------------------------------ APIClient
\* _get_base_url: the argument when it is not None, else the environment
\* variable, each with its trailing slashes stripped; ValueError when both
\* are None.  The result is [ok, value].
_get_base_url(base_url, env) ==
    IF base_url # {} THEN [ok |-> TRUE, value |-> rstrip(CHOOSE b \in base_url : TRUE)]
    ELSE IF env = {} THEN [ok |-> FALSE, value |-> <<>>]
    ELSE [ok |-> TRUE, value |-> rstrip(CHOOSE b \in env : TRUE)]

\* _build_url
_build_url(self_base_url, endpoint) ==
    urljoin(self_base_url \o <<SLASH>>, lstrip(endpoint))


\* ------------------------------------------------------------- input sets
Verbs == {"GET", "POST", "PUT", "DELETE", "PATCH"}
DefaultTimeout == 30
APPLICATION_JSON == <<"application/json">>

\* base_url arguments and API_BASE_URL values of the lifecycle specification
LifecycleBaseArgs == {{}, {<<ORIGIN, "/", "a", "/">>}}
LifecycleEnvVals == {{}}
ApiKeyArgs == {{}, {""}, {"k1"}}
HeaderArgs ==
    { {}, {<<>>},
      {[k \in {"Content-Type"} |-> <<"text/xml">>]},
      {[k \in {"Authorization", "X-Extra"} |->
            IF k = "Authorization" THEN <<"Basic ", "caller">> ELSE <<"1">>]} }
TimeoutArgs == {DefaultTimeout}
VerifyArgs == {TRUE}
LifecycleEndpoints == {<<"/", "a">>}

\* **kwargs of a verb call: each transport option is absent ({}) or given
NoKwargs == [timeout |-> {}, verify |-> {}, headers |-> {}]
KwargsChoices ==
    { NoKwargs,
      [NoKwargs EXCEPT !.timeout = {5}],
      [NoKwargs EXCEPT !.verify = {FALSE}],
      [NoKwargs EXCEPT !.headers = {[k \in {"Authorization"} |-> <<"Basic ", "other">>]}] }
ParamsChoices == {{"q=1"}}
BodyChoices == {[data |-> {"form"}, json_data |-> {"json"}]}

\* what the transport can do with one request: raise a RequestException
\* subclass (no response received) or return a response
TransportErrors == {"ConnectionError", "Timeout"}
StatusCodes == {200, 304, 404, 500}
ContentTypes == {{}, {<<"text/plain">>}, {APPLICATION_JSON \o <<"; charset=utf-8">>}}
Bodies == {"{\"id\":1}", "ok"}
Responses ==
    [status_code : StatusCodes, content_type : ContentTypes, text : Bodies]
TransportOutcomes ==
    {[kind |-> "raise", exc |-> e, response |-> {}] : e \in TransportErrors}
    \cup {[kind |-> "response", exc |-> "", response |-> {r}] : r \in Responses}

\* ---------------------------------------------------------------- state
VARIABLES
    phase,      \* "new", "ready" (constructed) or "config_error" (ValueError)
    args,       \* the constructor's arguments and the environment, as given
    self,       \* base_url, timeout, verify_ssl, default_headers
    session,    \* the requests.Session: its headers and whether close() ran
    pc,         \* "idle", or "in_flight" while a verb waits for the transport
    call,       \* the last verb call: what was sent and how it ended
    built       \* the last _build_url evaluation: endpoint and result

vars == <<phase, args, self, session, pc, call, built>>

\* ------------------------------------------------------------ exceptions
\* an exception is its class with its base classes, and APIError's fields
Exc(classes, message, status_code, response) ==
    [classes |-> classes, message |-> message,
     status_code |-> status_code, response |-> response]

RequestsError(name) == Exc({name, "RequestException"}, <<name>>, {}, {})
HTTPError == Exc({"HTTPError", "RequestException"}, <<"Client or Server Error">>, {}, {})
\* requests.exceptions.JSONDecodeError(InvalidJSONError, json.JSONDecodeError)
JSONDecodeError ==
    Exc({"JSONDecodeError", "InvalidJSONError", "RequestException"},
        <<"Expecting value">>, {}, {})
TypeError == Exc({"TypeError"}, <<"got multiple values for keyword argument">>, {}, {})

\* class APIError(Exception)
APIError(message, status_code, response) ==
    Exc({"APIError"}, message, status_code, response)

\* how a call ends: a returned value (decoded JSON or the raw text) or a raise
NoValue == [decoded |-> FALSE, text |-> ""]
Return(value) == [kind |-> "return", value |-> value, exc |-> Exc({}, <<>>, {}, {})]
Raise(exc) == [kind |-> "raise", value |-> NoValue, exc |-> exc]
Pending == [kind |-> "none", value |-> NoValue, exc |-> Exc({}, <<>>, {}, {})]

\* ------------------------------------------------------------- __init__
\* dict.update
update(d, e) ==
    [k \in (DOMAIN d) \cup (DOMAIN e) |-> IF k \in DOMAIN e THEN e[k] ELSE d[k]]

\* requests.Session(): the headers a new session starts with
SessionDefaults ==
    [k \in {"User-Agent", "Accept-Encoding", "Accept", "Connection"} |->
        IF k = "User-Agent" THEN <<"python-requests">>
        ELSE IF k = "Accept-Encoding" THEN <<"gzip, deflate">>
        ELSE IF k = "Accept" THEN <<"*/*">>
        ELSE <<"keep-alive">>]

BuiltinHeaders ==
    [k \in {"Content-Type", "Accept"} |-> APPLICATION_JSON]

\* faulty variant: the built-in pair wins over the caller's map
mergeBuiltinsWin(default_headers) ==
    IF default_headers # {} /\ (CHOOSE h \in default_headers : TRUE) # <<>>
        THEN update(CHOOSE h \in default_headers : TRUE, BuiltinHeaders)
        ELSE BuiltinHeaders

\* `if default_headers:` is false for None and for an empty dict
mergeDefaultHeaders(default_headers) ==
    IF default_headers # {} /\ (CHOOSE h \in default_headers : TRUE) # <<>>
        THEN update(BuiltinHeaders, CHOOSE h \in default_headers : TRUE)
        ELSE BuiltinHeaders

\* faulty variant: Authorization is set only when the headers have none yet
injectApiKeyIfAbsent(headers, api_key) ==
    IF api_key # {} /\ api_key # {""} /\ "Authorization" \notin DOMAIN headers
        THEN update(headers, [k \in {"Authorization"} |->
                                  <<"Bearer ", CHOOSE a \in api_key : TRUE>>])
        ELSE headers

\* `if api_key:` is false for None and for the empty string
injectApiKey(headers, api_key) ==
    IF api_key # {} /\ api_key # {""}
        THEN update(headers, [k \in {"Authorization"} |->
                                  <<"Bearer ", CHOOSE a \in api_key : TRUE>>])
        ELSE headers

initDefaultHeaders(default_headers, api_key) ==
    injectApiKey(mergeDefaultHeaders(default_headers), api_key)

NoCall ==
    [method |-> "", endpoint |-> <<>>, url |-> <<>>, kwargs |-> NoKwargs,
     info_lines |-> 0, requests |-> 0, sent |-> {}, on_closed |-> FALSE,
     transport |-> {}, result |-> Pending]

Init ==
    /\ phase = "new"
    /\ args = [base_url |-> {}, env |-> {}, api_key |-> {}, default_headers |-> {},
               timeout |-> DefaultTimeout, verify_ssl |-> TRUE]
    /\ self = [base_url |-> <<>>, timeout |-> DefaultTimeout, verify_ssl |-> TRUE,
               default_headers |-> <<>>]
    /\ session = [headers |-> <<>>, closed |-> FALSE]
    /\ pc = "idle"
    /\ call = NoCall
    /\ built = [endpoint |-> <<>>, url |-> <<>>, done |-> FALSE]

\* APIClient(base_url, api_key, timeout, verify_ssl, default_headers)
Construct(BaseArgs, EnvVals, KeyArgs, HdrArgs) ==
    /\ phase = "new"
    /\ \E b \in BaseArgs, e \in EnvVals, k \in KeyArgs, h \in HdrArgs,
          t \in TimeoutArgs, v \in VerifyArgs :
          LET r == _get_base_url(b, e)
              dh == initDefaultHeaders(h, k)
          IN  /\ args' = [base_url |-> b, env |-> e, api_key |-> k,
                          default_headers |-> h, timeout |-> t, verify_ssl |-> v]
              /\ IF r.ok
                    THEN /\ phase' = "ready"
                         /\ self' = [base_url |-> r.value, timeout |-> t,
                                     verify_ssl |-> v, default_headers |-> dh]
                         /\ session' = [headers |-> update(SessionDefaults, dh),
                                        closed |-> FALSE]
                    ELSE /\ phase' = "config_error"
                         /\ UNCHANGED <<self, session>>
    /\ UNCHANGED <<pc, call, built>>


\* ------------------------------------------------------ _handle_response
\* response.raise_for_status(): HTTPError for 4xx and 5xx only
raise_for_status(response) ==
    response.status_code >= 400 /\ response.status_code < 600

\* response.headers.get('content-type', '').startswith('application/json')
isJsonContentType(response) ==
    LET ct == IF response.content_type = {} THEN <<>>
              ELSE CHOOSE c \in response.content_type : TRUE
    IN  /\ Len(ct) >= Len(APPLICATION_JSON)
        /\ SubSeq(ct, 1, Len(APPLICATION_JSON)) = APPLICATION_JSON

\* response.json(): the decoded value, or JSONDecodeError
JsonTexts == {"{\"id\":1}"}
response_json(response) ==
    IF response.text \in JsonTexts
        THEN Return([decoded |-> TRUE, text |-> response.text])
        ELSE Raise(JSONDecodeError)

\* the try block
handleResponseTry(response) ==
    IF raise_for_status(response) THEN Raise(HTTPError)
    ELSE IF isJsonContentType(response) THEN response_json(response)
    ELSE Return([decoded |-> FALSE, text |-> response.text])

\* faulty variant: the RequestException clause written before the JSONDecodeError one
handleResponseExceptGenericFirst(response, outcome) ==
    IF outcome.kind # "raise" THEN outcome
    ELSE IF "HTTPError" \in outcome.exc.classes
        THEN Raise(APIError(<<"HTTP error occurred: ">> \o outcome.exc.message,
                            {response.status_code}, {response}))
    ELSE IF "RequestException" \in outcome.exc.classes
        THEN Raise(APIError(<<"Request failed: ">> \o outcome.exc.message, {}, {}))
    ELSE IF "JSONDecodeError" \in outcome.exc.classes
        THEN Raise(APIError(<<"Failed to decode JSON response: ">> \o outcome.exc.message,
                            {response.status_code}, {response}))
    ELSE outcome

\* the except clauses, in the order they are written
handleResponseExcept(response, outcome) ==
    IF outcome.kind # "raise" THEN outcome
    ELSE IF "HTTPError" \in outcome.exc.classes
        THEN Raise(APIError(<<"HTTP error occurred: ">> \o outcome.exc.message,
                            {response.status_code}, {response}))
    ELSE IF "JSONDecodeError" \in outcome.exc.classes
        THEN Raise(APIError(<<"Failed to decode JSON response: ">> \o outcome.exc.message,
                            {response.status_code}, {response}))
    ELSE IF "RequestException" \in outcome.exc.classes
        THEN Raise(APIError(<<"Request failed: ">> \o outcome.exc.message, {}, {}))
    ELSE outcome

_handle_response(response) ==
    handleResponseExcept(response, handleResponseTry(response))

\* ---------------------------------------------------------------- verbs
\* _log_request: one logger.info line
_log_request == 1

\* evaluating session.<verb>(url, ..., timeout=self.timeout,
\* verify=self.verify_ssl, **kwargs): a keyword given twice is a TypeError
\* raised before the session is entered
keywordCollision(kwargs) == kwargs.timeout # {} \/ kwargs.verify # {}

\* the headers of the request: the session's, overridden by the call's
requestHeaders(session_headers, kwargs) ==
    IF kwargs.headers = {} THEN session_headers
    ELSE update(session_headers, CHOOSE h \in kwargs.headers : TRUE)

\* faulty variant: the verb lets the transport's exception through
verbExceptMissing(method, outcome) == outcome

\* the verb's `except RequestException` around the dispatch and
\* _handle_response
verbExcept(method, outcome) ==
    IF outcome.kind = "raise" /\ "RequestException" \in outcome.exc.classes
        THEN Raise(APIError(<<method, " request failed: ">> \o outcome.exc.message, {}, {}))
        ELSE outcome

\* a verb method up to the point where the session holds the request
Invoke(method, endpoint, params, data, json_data, kwargs) ==
    /\ phase = "ready"
    /\ pc = "idle"
    /\ LET url == _build_url(self.base_url, endpoint)
           request == [method |-> method, url |-> url, params |-> params,
                       data |-> data, json |-> json_data,
                       timeout |-> self.timeout, verify |-> self.verify_ssl,
                       headers |-> requestHeaders(session.headers, kwargs)]
           started == [method |-> method, endpoint |-> endpoint, url |-> url,
                       kwargs |-> kwargs, info_lines |-> _log_request,
                       requests |-> 0, sent |-> {}, on_closed |-> session.closed,
                       transport |-> {}, result |-> Pending]
       IN  IF keywordCollision(kwargs)
               THEN /\ call' = [started EXCEPT !.result = Raise(TypeError)]
                    /\ pc' = "idle"
               ELSE /\ call' = [started EXCEPT !.requests = 1, !.sent = {request}]
                    /\ pc' = "in_flight"
    /\ UNCHANGED <<phase, args, self, session, built>>

get ==
    /\ phase = "ready"
    /\ \E endpoint \in LifecycleEndpoints, params \in ParamsChoices, kwargs \in KwargsChoices :
          Invoke("GET", endpoint, params, {}, {}, kwargs)

post ==
    /\ phase = "ready"
    /\ \E endpoint \in LifecycleEndpoints, body \in BodyChoices, kwargs \in KwargsChoices :
          Invoke("POST", endpoint, {}, body.data, body.json_data, kwargs)

put ==
    /\ phase = "ready"
    /\ \E endpoint \in LifecycleEndpoints, body \in BodyChoices, kwargs \in KwargsChoices :
          Invoke("PUT", endpoint, {}, body.data, body.json_data, kwargs)

delete ==
    /\ phase = "ready"
    /\ \E endpoint \in LifecycleEndpoints, kwargs \in KwargsChoices :
          Invoke("DELETE", endpoint, {}, {}, {}, kwargs)

patch ==
    /\ phase = "ready"
    /\ \E endpoint \in LifecycleEndpoints, body \in BodyChoices, kwargs \in KwargsChoices :
          Invoke("PATCH", endpoint, {}, body.data, body.json_data, kwargs)

\* the transport answers the request in flight and the verb method ends:
\* a RequestException is re-raised as APIError, a response goes through
\* _handle_response
Respond ==
    /\ pc = "in_flight"
    /\ \E out \in TransportOutcomes :
          LET outcome == IF out.kind = "raise" THEN Raise(RequestsError(out.exc))
                         ELSE _handle_response(CHOOSE r \in out.response : TRUE)
          IN  call' = [call EXCEPT !.transport = {out},
                                   !.result = verbExcept(call.method, outcome)]
    /\ pc' = "idle"
    /\ UNCHANGED <<phase, args, self, session, built>>

\* close(): session.close().  Nothing of the client records it, and a closed
\* requests.Session opens new connections for the next request.
close ==
    /\ phase = "ready"
    /\ pc = "idle"
    /\ session' = [session EXCEPT !.closed = TRUE]
    /\ UNCHANGED <<phase, args, self, pc, call, built>>

Next ==
    \/ Construct(LifecycleBaseArgs, LifecycleEnvVals, ApiKeyArgs, HeaderArgs)
    \/ get
    \/ post
    \/ put
    \/ delete
    \/ patch
    \/ Respond
    \/ close

Spec == Init /\ [][Next]_vars

\* ------------------------------------------- URL resolution on its own
BaseStrings ==
    {<<>>, <<SLASH>>, <<SLASH, SLASH>>}
    \cup {<<ORIGIN>> \o p : p \in {q \in SeqsUpTo(BaseChars, MaxBaseLen) :
                                      q = <<>> \/ q[1] = SLASH}}
UrlBaseArgs == {{}} \cup {{b} : b \in BaseStrings}
UrlEnvVals == {{}, {<<>>}, {<<SLASH>>}, {<<ORIGIN, SLASH, "a", SLASH>>}}
Endpoints == SeqsUpTo(EndpointChars, MaxEndpointLen)

\* one evaluation of _build_url on the constructed client
BuildUrl ==
    /\ phase = "ready"
    /\ \E endpoint \in Endpoints :
          built' = [endpoint |-> endpoint,
                    url |-> _build_url(self.base_url, endpoint), done |-> TRUE]
    /\ UNCHANGED <<phase, args, self, session, pc, call>>

NextUrl ==
    \/ Construct(UrlBaseArgs, UrlEnvVals, {{}}, {{}})
    \/ BuildUrl

SpecUrl == Init /\ [][NextUrl]_vars


\* =================================================================
\* Properties
\* =================================================================
\* a verb call has been made (it may still wait for the transport)
Called == call.method # ""
\* the last verb call has ended
Ended == Called /\ pc = "idle"
\* the response the transport returned to the last call, if any
Received == {r \in Responses : \E out \in call.transport : out.response = {r}}
\* the transport raised instead of returning a response
TransportFailed == \E out \in call.transport : out.kind = "raise"
IsAPIError(result) == result.kind = "raise" /\ result.exc.classes = {"APIError"}
Success == 200..299

\* C1: once close() has run, every later verb call fails with an error and
\* hands no request to the closed session.
C1_ClosedGatewayRejectsCalls ==
    (Called /\ call.on_closed) =>
        /\ call.requests = 0
        /\ call.sent = {}
        /\ (pc = "idle" => call.result.kind = "raise")

\* C2: a response whose status is outside 200..299 always ends the call with
\* an APIError that has a message, the response's status and the response;
\* no body is returned for it.
C2_Non2xxRaisesAPIError ==
    Ended =>
        \A r \in Received :
            r.status_code \notin Success =>
                /\ IsAPIError(call.result)
                /\ call.result.exc.message # <<>>
                /\ call.result.exc.status_code = {r.status_code}
                /\ call.result.exc.response = {r}

\* C3: a call without overrides is sent with the configured timeout and
\* verify_ssl, and a call that passes timeout or verify among its extra
\* options is sent with the value it passed.
C3_TimeoutVerifyConfiguredOrOverridden ==
    Called =>
        /\ call.requests = 1
        /\ \A req \in call.sent :
              /\ req.timeout \in (IF call.kwargs.timeout = {} THEN {self.timeout}
                                  ELSE call.kwargs.timeout)
              /\ req.verify \in (IF call.kwargs.verify = {} THEN {self.verify_ssl}
                                 ELSE call.kwargs.verify)
        /\ call.sent # {}

\* C4: construction ends in the configuration error, with nothing sent, or
\* in a client whose base_url is not empty.
C4_BaseUrlNonEmptyOrConfigError ==
    phase # "new" =>
        \/ phase = "config_error" /\ call = NoCall
        \/ phase = "ready" /\ self.base_url # <<>>

\* the base URL construction was given: the argument, else the environment
GivenBase ==
    IF args.base_url # {} THEN CHOOSE b \in args.base_url : TRUE
    ELSE IF args.env # {} THEN CHOOSE b \in args.env : TRUE
    ELSE <<>>

\* C5: for an absolute base URL, _build_url(e) is the base without its
\* trailing slashes, one slash, and the endpoint without its leading
\* slashes, whatever the endpoint holds.
C5_BuildUrlIsSimpleJoin ==
    (built.done /\ hasOrigin(GivenBase)) =>
        built.url = rstrip(GivenBase) \o <<SLASH>> \o lstrip(built.endpoint)

\* C6: a transport failure (no response) ends the call with an APIError
\* that has a message, no status code and no response; an APIError raised
\* after a response was received carries that response's status.
C6_TransportFailureHasNoStatus ==
    Ended =>
        /\ TransportFailed =>
              /\ IsAPIError(call.result)
              /\ call.result.exc.message # <<>>
              /\ call.result.exc.status_code = {}
              /\ call.result.exc.response = {}
        /\ \A r \in Received :
              (call.result.kind = "raise" /\ "APIError" \in call.result.exc.classes)
                  => call.result.exc.status_code = {r.status_code}

C6_Witness ==
    /\ Ended
    /\ TransportFailed
    /\ IsAPIError(call.result)
    /\ call.result.exc.status_code = {}

\* a response that announces JSON and whose body is not JSON
UnparsableJson(r) ==
    /\ r.status_code \in Success
    /\ \E ct \in r.content_type : ct[1] = "application/json"
    /\ r.text = "ok"

\* C7: a 2xx response that announces JSON with a body that does not parse
\* ends the call with an APIError carrying the response's status and a
\* message about the decoding; nothing is returned and no other exception
\* escapes.
C7_ParseFailureIsAPIErrorWithStatus ==
    Ended =>
        \A r \in Received :
            UnparsableJson(r) =>
                /\ IsAPIError(call.result)
                /\ call.result.exc.status_code = {r.status_code}
                /\ call.result.exc.message # <<>>
                /\ call.result.exc.message[1] = "Failed to decode JSON response: "

C7_Witness ==
    /\ Ended
    /\ \E r \in Received : UnparsableJson(r) /\ r.status_code = 200
    /\ call.result.exc.status_code = {200}

Bearer(key) == <<"Bearer ", key>>
HasHeader(headers, k, v) == k \in DOMAIN headers /\ headers[k] = v

\* C8 as stated: whenever a credential was supplied, every request sent
\* carries Authorization: Bearer <credential>.
C8_EveryRequestCarriesBearer ==
    \A req \in call.sent :
        \A key \in args.api_key : HasHeader(req.headers, "Authorization", Bearer(key))

CallOverridesAuthorization ==
    \E h \in call.kwargs.headers : "Authorization" \in DOMAIN h

\* C8 amended: for a non-empty credential the session's headers carry
\* Authorization: Bearer <credential> from construction on, also over an
\* Authorization entry of the caller's default_headers, and so does every
\* request sent by a call that gives no Authorization header of its own.
C8_NonEmptyKeyBearerUnlessCallOverrides ==
    \A key \in args.api_key :
        (phase = "ready" /\ key # "") =>
            /\ HasHeader(session.headers, "Authorization", Bearer(key))
            /\ \A req \in call.sent :
                  ~CallOverridesAuthorization =>
                      HasHeader(req.headers, "Authorization", Bearer(key))

C8_Witness ==
    /\ args.api_key = {"k1"}
    /\ \E h \in args.default_headers : "Authorization" \in DOMAIN h
    /\ ~CallOverridesAuthorization
    /\ \E req \in call.sent : req.headers["Authorization"] = Bearer("k1")

\* the caller's default_headers as a map (None is the empty map)
CallerHeaders ==
    IF args.default_headers = {} THEN <<>> ELSE CHOOSE h \in args.default_headers : TRUE

\* C9 as stated: on the session every caller key has the caller's value and
\* every built-in key the caller did not give has the built-in value.
C9_CallerKeysUnchanged ==
    phase = "ready" =>
        /\ \A k \in DOMAIN CallerHeaders : HasHeader(session.headers, k, CallerHeaders[k])
        /\ \A k \in {"Content-Type", "Accept"} \ DOMAIN CallerHeaders :
              HasHeader(session.headers, k, <<"application/json">>)

\* C9 amended: the client's default headers are exactly the built-in pair,
\* overridden by the caller's map, with Authorization set to
\* Bearer <api_key> when a non-empty api_key is given; the session holds
\* each of them.
C9_MergeThenBearer ==
    phase = "ready" =>
        LET bearer == {key \in args.api_key : key # ""}
            keys == {"Content-Type", "Accept"} \cup DOMAIN CallerHeaders
                    \cup (IF bearer = {} THEN {} ELSE {"Authorization"})
        IN  /\ DOMAIN self.default_headers = keys
            /\ \A k \in keys :
                  /\ self.default_headers[k] =
                        (IF k = "Authorization" /\ bearer # {}
                             THEN Bearer(CHOOSE key \in bearer : TRUE)
                         ELSE IF k \in DOMAIN CallerHeaders THEN CallerHeaders[k]
                         ELSE <<"application/json">>)
                  /\ HasHeader(session.headers, k, self.default_headers[k])

C9_Witness ==
    /\ phase = "ready"
    /\ "Content-Type" \in DOMAIN CallerHeaders
    /\ session.headers["Content-Type"] = <<"text/xml">>
    /\ session.headers["Accept"] = <<"application/json">>

\* the single attempt failed: no response, a status outside 2xx, or a body
\* that does not parse
AttemptFailed ==
    \/ TransportFailed
    \/ \E r \in Received : r.status_code \notin Success \/ UnparsableJson(r)

\* C10: every verb call logs one informational line and hands exactly one
\* request to the session, and a failed attempt ends the call with a raise.
C10_OneLogOneRequestFailureRaises ==
    Called =>
        /\ call.info_lines = 1
        /\ call.requests = 1
        /\ Cardinality(call.sent) = 1
        /\ (pc = "idle" /\ AttemptFailed) => call.result.kind = "raise"

====
